---- MODULE Spec2Model ----
(***************************************************************************)
(* The ingestion-and-processing pipeline of Second Brain.                  *)
(*                                                                         *)
(* The queues, the table, the bucket and the event-source wiring are the   *)
(* resources declared in cdk/lib/constructs/second-brain-app.ts and        *)
(* second-brain-storage.ts.  The three Lambda handlers (message handler,   *)
(* processor, response handler) are Python code that is not part of the    *)
(* sources at hand; their steps follow sections 4.4 - 4.6 of the design.   *)
(***************************************************************************)
EXTENDS Integers, Sequences, FiniteSets, TLC

(***************************************************************************)
(* Bounds of the model.                                                    *)
(***************************************************************************)
NumMsgs == 1            \* distinct message ids the transport submits
MaxReceiveCalls == 2    \* receive calls the transport makes (retries included)
NumWorkers == 2         \* processor invocations that can run side by side
NumProposed == 2        \* entities the agent proposes for one message
NumRuns == 2            \* replay runs, each into its own empty target store
NumRawEvents == 3       \* raw events under one day prefix of the log
MaxClock == 4           \* writes to that prefix (first appends and retries)
MaxDepth == 2           \* depth of the entries under a package's src/
MaxContentLen == 2      \* characters in one source file
MaxPathDepth == 2       \* directories between the start path and the root

(***************************************************************************)
(* Configuration of the deployed resources.                                *)
(***************************************************************************)
maxReceiveCount_OneMore == 3 + 1

maxReceiveCount == 3    \* messageQueue.deadLetterQueue.maxReceiveCount
batchSize == 1          \* SqsEventSource.batchSize
maxConcurrency_OneMore == 5 + 1

maxConcurrency == 5     \* SqsEventSource.maxConcurrency
LocalRetryBound == 3    \* local retries of a transient agent error (4.5)

Msgs == 1..NumMsgs
Workers == 1..NumWorkers
Proposed == 1..NumProposed
ItemIds == 1..MaxReceiveCalls

NoItem == 0
NoMsg == 0
NoRecord == "no-record"
NoRow == [status |-> "absent", raw_content |-> "", s3_key |-> NoMsg]

\* Message.status values, architecture "Data Models: Message"
MessageStatus == {"received", "processing", "processed", "failed", "sent", "archived"}

\* Position of a status in the order received, processing,
\* {processed, failed}, sent, archived
StatusRank(s) ==
    CASE s = "absent" -> 0
      [] s = "received" -> 1
      [] s = "processing" -> 2
      [] s = "processed" -> 3
      [] s = "failed" -> 3
      [] s = "sent" -> 4
      [] s = "archived" -> 5

\* The text the transport submits under a message id: the same id always
\* carries the same content (4.4).
RawText(m) == <<"buy milk tomorrow", "call the dentist", "water the plants">>[m]

\* The raw event the handler stores for a message on its attempt-th receive
\* call: the submitted text, the same on every call.
LogPayload_Stamped(m, attempt) == <<RawText(m), attempt>>

LogPayload(m, attempt) == RawText(m)

\* The steps of one receive call, in order.
HandlerSteps_EnqueueFirst == <<"enqueue", "append", "row">>

HandlerSteps_RowFirst == <<"row", "append", "enqueue">>

HandlerSteps == <<"append", "row", "enqueue">>

VARIABLES
    dataBucket,       \* raw-events/ objects: message id -> payload
    dataTable,        \* Message rows: message id -> row
    derived,          \* derived rows: message id -> proposal -> number of rows
    messageQueue,     \* second-brain-messages: item id -> item
    messageQueueDLQ,  \* second-brain-messages-dlq: item id -> item
    responseQueue,    \* second-brain-responses: message id -> visible items
    nextItem,         \* id of the next work item SendMessage creates
    handler,          \* the message handler invocation in progress
    receiveCalls,     \* receive calls made so far
    processor,        \* processor invocations: worker -> local state
    responder,        \* the response handler invocation in progress
    reported,         \* history: receive returned success for the message
    claimed,          \* history: successful transitions out of received
    delivered,        \* history: deliver returned success for the message
    agentScript,      \* the behaviour of the agent capability, when scripted
    target,           \* replay: run -> target store
    replay,           \* replay: run -> position of the replay engine
    rawEvents,        \* log listing: the objects under one day prefix
    clock,            \* log listing: time of the latest write to the prefix
    listing,          \* log listing: position and references yielded so far
    agentCalls,       \* history: calls of infer() made for the message
    invocations,      \* event source: the batches of the invocations in progress
    packageSrc,       \* build context: the entries under a package's src/
    buildContext,     \* build context: the entries copied
    sources,          \* layer: the files of the hashed packages, path -> content
    layer,            \* layer: the sources and the hash of the last synthesis
    markers,          \* project root: what each directory on the path contains
    current,          \* project root: the directory findProjectRoot is at
    found             \* project root: the outcome of findProjectRoot

pipeVars == <<dataBucket, dataTable, derived, messageQueue, messageQueueDLQ,
              responseQueue, nextItem, handler, receiveCalls, processor,
              responder, reported, claimed, delivered>>

replayVars == <<target, replay>>
listVars == <<rawEvents, clock, listing>>
buildVars == <<packageSrc, buildContext>>
hashVars == <<sources, layer>>
rootVars == <<markers, current, found>>
toolVars == <<buildVars, hashVars, rootVars>>
extVars == <<agentScript, replayVars, listVars, agentCalls, invocations, toolVars>>

vars == <<pipeVars, extVars>>

storeVars == <<dataBucket, dataTable, derived>>
queueVars == <<messageQueue, messageQueueDLQ, responseQueue, nextItem>>
histVars == <<reported, claimed, delivered>>

IdleHandler == [step |-> 0, msg |-> NoMsg]
IdleProcessor == [pc |-> "idle", item |-> NoItem, handle |-> 0, msg |-> NoMsg,
                  next |-> 1]
IdleResponder == [pc |-> "idle", msg |-> NoMsg, seen |-> "absent"]

\* infer() fails with `errors` transient errors in a row and then returns
\* `last`; AnyScript leaves every call free.
Scripts == [errors : 0..(LocalRetryBound + 1), last : {"response", "permanent"}]
AnyScript == [errors |-> 0, last |-> "any"]

Runs == 1..NumRuns
EmptyStore == [table |-> [m \in Msgs |-> NoRow],
               derived |-> [m \in Msgs |-> [p \in Proposed |-> 0]]]
IdleReplay == [pc |-> "idle", cursor |-> NoMsg, next |-> 1, listed |-> {}]
IdleListing == [pc |-> "idle", pos |-> 0, refs |-> <<>>]
RawEventIds == 1..NumRawEvents

(***************************************************************************)
(* Durable Log: S3 objects under raw-events/.                              *)
(***************************************************************************)
\* PutObject on a key: creates the object or replaces its current content.
PutObject_Empty(bucket, key, payload) == [bucket EXCEPT ![key] = ""]

PutObject(bucket, key, payload) == [bucket EXCEPT ![key] = payload]

\* GetObject on a key.
GetObject(bucket, key) == bucket[key]

(***************************************************************************)
(* Entity Store: the single DynamoDB table.                                *)
(***************************************************************************)
\* put(entity): insert-or-replace.
PutItem(table, m, row) == [table EXCEPT ![m] = row]

\* A status transition: one conditional write.  The stored status is
\* compared with the expected one and replaced in the same step.
ConditionHolds(table, m, expected) == table[m].status = expected

ConditionalPut_Overwrite(table, m, expected, new) ==
    [table EXCEPT ![m].status = new]

ConditionalPut(table, m, expected, new) ==
    IF ConditionHolds(table, m, expected)
    THEN [table EXCEPT ![m].status = new]
    ELSE table

(***************************************************************************)
(* Work Queue: SQS queue with a redrive policy to the dead-letter queue.   *)
(***************************************************************************)
AddItem(queue, id, item) ==
    [i \in DOMAIN queue \cup {id} |-> IF i = id THEN item ELSE queue[i]]

\* SendMessage creates a new item, visible, never received.
SendMessage(queue, id, m) ==
    AddItem(queue, id, [msg |-> m, receiveCount |-> 0, visible |-> TRUE])

RemoveItem(queue, id) == [i \in DOMAIN queue \ {id} |-> queue[i]]

\* A receive attempt counts; once the count exceeds maxReceiveCount the
\* item goes to the dead-letter queue instead of to a consumer.
Exhausted_OffByOne(item) == item.receiveCount > maxReceiveCount

Exhausted(item) == item.receiveCount + 1 > maxReceiveCount

\* DeleteMessage with a receipt handle: removes the item unless it has been
\* received again since the handle was issued.
DeleteMessage_Keep(queue, id, handle) == queue

DeleteMessage(queue, id, handle) ==
    IF id \in DOMAIN queue /\ queue[id].receiveCount = handle
    THEN RemoveItem(queue, id)
    ELSE queue

\* A worker that abandons an item does not acknowledge it: the item stays
\* in the queue until its visibility timeout runs out.
Abandon(queue, id, handle) == queue

\* Processor invocations in progress.
Busy == {w \in Workers : processor[w].pc # "idle"}

\* Invocations are interchangeable: a delivery starts the free slot with the
\* lowest number.
FreeSlot(w) == processor[w].pc = "idle" /\ \A v \in Workers : v < w => v \in Busy

PipelineInit ==
    /\ dataBucket = [m \in Msgs |-> NoRecord]
    /\ dataTable = [m \in Msgs |-> NoRow]
    /\ derived = [m \in Msgs |-> [p \in Proposed |-> 0]]
    /\ messageQueue = <<>>
    /\ messageQueueDLQ = <<>>
    /\ responseQueue = [m \in Msgs |-> 0]
    /\ nextItem = 1
    /\ handler = IdleHandler
    /\ receiveCalls = 0
    /\ processor = [w \in Workers |-> IdleProcessor]
    /\ responder = IdleResponder
    /\ reported = [m \in Msgs |-> FALSE]
    /\ claimed = [m \in Msgs |-> 0]
    /\ delivered = [m \in Msgs |-> FALSE]

\* No replay has been started: every target store is empty.
ReplayInit ==
    /\ target = [r \in Runs |-> EmptyStore]
    /\ replay = [r \in Runs |-> IdleReplay]

\* No listing of the log is in progress.
ListingInit ==
    /\ rawEvents = <<>>
    /\ clock = 0
    /\ listing = IdleListing

\* No call of infer() has been made and no invocation is in progress.
MeterInit ==
    /\ agentCalls = [m \in Msgs |-> 0]
    /\ invocations = {}

\* No build context has been made.
NotBuilt == [built |-> FALSE, entries |-> {}]
BuildIdle ==
    /\ packageSrc = {}
    /\ buildContext = NotBuilt

\* No layer has been synthesized.
NoLayer == [built |-> FALSE, tree |-> <<>>, hash |-> <<>>]
HashIdle ==
    /\ sources = <<>>
    /\ layer = NoLayer

\* findProjectRoot has not been called.
NotCalled == [pc |-> "idle", start |-> 0, dir |-> 0]
RootIdle ==
    /\ markers = <<>>
    /\ current = 0
    /\ found = NotCalled

\* The deployed system: the agent is the external capability and answers
\* each call as it pleases.
Init ==
    /\ PipelineInit
    /\ agentScript = AnyScript
    /\ ReplayInit
    /\ ListingInit
    /\ MeterInit
    /\ BuildIdle
    /\ HashIdle
    /\ RootIdle

\* The system with a stub agent: every call of infer() behaves alike.
ScriptedInit ==
    /\ PipelineInit
    /\ agentScript \in Scripts
    /\ ReplayInit
    /\ ListingInit
    /\ MeterInit
    /\ BuildIdle
    /\ HashIdle
    /\ RootIdle

(***************************************************************************)
(* Ingress Receiver: the message handler Lambda, receive(namespace,        *)
(* raw_text).  Steps: append to the log, write the Message row, enqueue.   *)
(***************************************************************************)
\* The transport calls receive for message id m (a first call or a retry).
HandlerStart(m) ==
    /\ handler.step = 0
    /\ receiveCalls < MaxReceiveCalls
    /\ handler' = [step |-> 1, msg |-> m]
    /\ receiveCalls' = receiveCalls + 1
    /\ UNCHANGED <<storeVars, queueVars, processor, responder, histVars>>
    /\ UNCHANGED extVars

HandlerAt(name) == handler.step > 0 /\ HandlerSteps[handler.step] = name

\* The call goes on to its next step; after the last one it returns the
\* message id to the transport.
HandlerAdvance ==
    IF handler.step = Len(HandlerSteps)
    THEN /\ handler' = IdleHandler
         /\ reported' = [reported EXCEPT ![handler.msg] = TRUE]
    ELSE /\ handler' = [handler EXCEPT !.step = @ + 1]
         /\ UNCHANGED reported

HandlerAppend ==
    /\ HandlerAt("append")
    /\ dataBucket' = PutObject(dataBucket, handler.msg,
                               LogPayload(handler.msg, receiveCalls))
    /\ HandlerAdvance
    /\ UNCHANGED <<dataTable, derived, queueVars, receiveCalls, processor,
                   responder, claimed, delivered>>
    /\ UNCHANGED extVars

HandlerWriteRow ==
    /\ HandlerAt("row")
    /\ dataTable' = PutItem(dataTable, handler.msg,
                            [status |-> "received",
                             raw_content |-> RawText(handler.msg),
                             s3_key |-> handler.msg])
    /\ HandlerAdvance
    /\ UNCHANGED <<dataBucket, derived, queueVars, receiveCalls, processor,
                   responder, claimed, delivered>>
    /\ UNCHANGED extVars

HandlerEnqueue ==
    /\ HandlerAt("enqueue")
    /\ messageQueue' = SendMessage(messageQueue, nextItem, handler.msg)
    /\ nextItem' = nextItem + 1
    /\ HandlerAdvance
    /\ UNCHANGED <<storeVars, messageQueueDLQ, responseQueue, receiveCalls,
                   processor, responder, claimed, delivered>>
    /\ UNCHANGED extVars

\* A step fails or the invocation dies: the call reports failure; the
\* transport may retry the whole call later.
HandlerFail ==
    /\ handler.step > 0
    /\ handler' = IdleHandler
    /\ UNCHANGED <<storeVars, queueVars, receiveCalls, processor, responder,
                   histVars>>
    /\ UNCHANGED extVars

(***************************************************************************)
(* Work Queue deliveries: the SQS event source of the processor.           *)
(***************************************************************************)
\* The event source receives one visible item and invokes the processor.
Receive(w, i) ==
    /\ FreeSlot(w)
    /\ Cardinality(Busy) < maxConcurrency
    /\ i \in DOMAIN messageQueue
    /\ messageQueue[i].visible
    /\ ~Exhausted(messageQueue[i])
    /\ messageQueue' = [messageQueue EXCEPT
                            ![i].receiveCount = @ + batchSize,
                            ![i].visible = FALSE]
    /\ processor' = [processor EXCEPT ![w] =
                        [IdleProcessor EXCEPT !.pc = "read", !.item = i,
                            !.handle = messageQueue[i].receiveCount + batchSize,
                            !.msg = messageQueue[i].msg]]
    /\ UNCHANGED <<storeVars, messageQueueDLQ, responseQueue, nextItem,
                   handler, receiveCalls, responder, histVars>>
    /\ UNCHANGED extVars

\* A receive attempt on an item that used up its receive count moves it to
\* the dead-letter queue.
Redrive(i) ==
    /\ i \in DOMAIN messageQueue
    /\ messageQueue[i].visible
    /\ Exhausted(messageQueue[i])
    /\ messageQueueDLQ' = AddItem(messageQueueDLQ, i,
                               [messageQueue[i] EXCEPT !.receiveCount = @ + 1])
    /\ messageQueue' = RemoveItem(messageQueue, i)
    /\ UNCHANGED <<storeVars, responseQueue, nextItem, handler, receiveCalls,
                   processor, responder, histVars>>
    /\ UNCHANGED extVars

\* The visibility timeout of an in-flight item runs out.
VisibilityTimeout(i) ==
    /\ i \in DOMAIN messageQueue
    /\ ~messageQueue[i].visible
    /\ messageQueue' = [messageQueue EXCEPT ![i].visible = TRUE]
    /\ UNCHANGED <<storeVars, messageQueueDLQ, responseQueue, nextItem,
                   handler, receiveCalls, processor, responder, histVars>>
    /\ UNCHANGED extVars

(***************************************************************************)
(* Processing Worker: the processor Lambda, one invocation per delivery.   *)
(***************************************************************************)
\* The Message a delivery refers to is already processed or failed: the
\* delivery is a duplicate.
AlreadyDone_Never(status) == FALSE

AlreadyDone(status) == status \in {"processed", "failed"}

\* Read the Message; a processed or failed one is only acknowledged.
ProcessorRead(w) ==
    /\ processor[w].pc = "read"
    /\ processor' = [processor EXCEPT ![w].pc =
                        IF AlreadyDone(dataTable[processor[w].msg].status)
                        THEN "ack" ELSE "claim"]
    /\ UNCHANGED <<storeVars, queueVars, handler, receiveCalls, responder,
                   histVars>>
    /\ UNCHANGED extVars

\* Conditional transition received -> processing; on Conflict the worker
\* abandons the item without acknowledging it.
ProcessorClaim(w) ==
    LET m == processor[w].msg
        won == ConditionHolds(dataTable, m, "received") IN
    /\ processor[w].pc = "claim"
    /\ dataTable' = ConditionalPut(dataTable, m, "received", "processing")
    /\ claimed' = [claimed EXCEPT ![m] = IF won THEN @ + 1 ELSE @]
    /\ processor' = [processor EXCEPT ![w] =
                        IF won THEN [@ EXCEPT !.pc = "invoke"]
                        ELSE IdleProcessor]
    /\ messageQueue' = IF won THEN messageQueue
                       ELSE Abandon(messageQueue, processor[w].item,
                                    processor[w].handle)
    /\ UNCHANGED <<dataBucket, derived, messageQueueDLQ, responseQueue, nextItem,
                   handler, receiveCalls, responder, reported, delivered>>
    /\ UNCHANGED extVars

\* infer(message_text, context) with its local retry loop: the call fails
\* with `errors` transient errors in a row and then returns `last`.  More
\* than LocalRetryBound transient errors, or a permanent error, fail the
\* message; the loop touches no shared state, so it is one step.
AgentOutcome_OffByOne(errors, last) ==
    IF errors >= LocalRetryBound THEN "fail"
    ELSE IF last = "permanent" THEN "fail"
    ELSE "write"

AgentOutcome(errors, last) ==
    IF errors > LocalRetryBound THEN "fail"
    ELSE IF last = "permanent" THEN "fail"
    ELSE "write"

\* The agent answers as scripted, or freely when it is not scripted.
AgentFollows(errors, last) ==
    \/ agentScript = AnyScript
    \/ agentScript = [errors |-> errors, last |-> last]

ProcessorInvoke(w) ==
    /\ processor[w].pc = "invoke"
    /\ \E errors \in 0..(LocalRetryBound + 1), last \in {"response", "permanent"} :
          /\ AgentFollows(errors, last)
          /\ processor' = [processor EXCEPT ![w].pc = AgentOutcome(errors, last)]
    /\ UNCHANGED <<storeVars, queueVars, handler, receiveCalls, responder,
                   histVars>>
    /\ UNCHANGED extVars

\* Write the next proposed entity under a fresh id, source_message_id set.
ProcessorWrite(w) ==
    LET m == processor[w].msg
        p == processor[w].next IN
    /\ processor[w].pc = "write"
    /\ derived' = [derived EXCEPT ![m][p] = @ + 1]
    /\ processor' = [processor EXCEPT ![w] =
                        IF p = NumProposed THEN [@ EXCEPT !.pc = "finish"]
                        ELSE [@ EXCEPT !.next = p + 1]]
    /\ UNCHANGED <<dataBucket, dataTable, queueVars, handler, receiveCalls,
                   responder, histVars>>
    /\ UNCHANGED extVars

\* Conditional transition processing -> processed, or -> failed when the
\* agent call failed for good.
ProcessorFinish(w) ==
    LET m == processor[w].msg
        new == IF processor[w].pc = "finish" THEN "processed" ELSE "failed" IN
    /\ processor[w].pc \in {"finish", "fail"}
    /\ dataTable' = ConditionalPut(dataTable, m, "processing", new)
    /\ processor' = [processor EXCEPT ![w] =
                        IF ConditionHolds(dataTable, m, "processing")
                        THEN [@ EXCEPT !.pc = "respond"]
                        ELSE IdleProcessor]
    /\ messageQueue' = IF ConditionHolds(dataTable, m, "processing")
                       THEN messageQueue
                       ELSE Abandon(messageQueue, processor[w].item,
                                    processor[w].handle)
    /\ UNCHANGED <<dataBucket, derived, messageQueueDLQ, responseQueue, nextItem,
                   handler, receiveCalls, responder, histVars>>
    /\ UNCHANGED extVars

\* Enqueue the response work item.
ProcessorRespond(w) ==
    /\ processor[w].pc = "respond"
    /\ responseQueue' = [responseQueue EXCEPT ![processor[w].msg] = @ + 1]
    /\ processor' = [processor EXCEPT ![w].pc = "ack"]
    /\ UNCHANGED <<storeVars, messageQueue, messageQueueDLQ, nextItem, handler,
                   receiveCalls, responder, histVars>>
    /\ UNCHANGED extVars

\* ack the processing work item.
ProcessorAck(w) ==
    /\ processor[w].pc = "ack"
    /\ messageQueue' = DeleteMessage(messageQueue, processor[w].item,
                                     processor[w].handle)
    /\ processor' = [processor EXCEPT ![w] = IdleProcessor]
    /\ UNCHANGED <<storeVars, messageQueueDLQ, responseQueue, nextItem,
                   handler, receiveCalls, responder, histVars>>
    /\ UNCHANGED extVars

\* The invocation times out or dies; nothing is acknowledged.
ProcessorCrash(w) ==
    /\ processor[w].pc # "idle"
    /\ processor' = [processor EXCEPT ![w] = IdleProcessor]
    /\ UNCHANGED <<storeVars, queueVars, handler, receiveCalls, responder,
                   histVars>>
    /\ UNCHANGED extVars

(***************************************************************************)
(* Response Dispatcher: lease, read, deliver, mark sent, ack.              *)
(***************************************************************************)
\* Lease a response work item and read the current Message.
ResponderReceive(m) ==
    /\ responder.pc = "idle"
    /\ responseQueue[m] > 0
    /\ responseQueue' = [responseQueue EXCEPT ![m] = @ - 1]
    /\ responder' = [pc |-> "deliver", msg |-> m, seen |-> dataTable[m].status]
    /\ UNCHANGED <<storeVars, messageQueue, messageQueueDLQ, nextItem, handler,
                   receiveCalls, processor, histVars>>
    /\ UNCHANGED extVars

\* deliver(namespace, message_id, rendered_text) -> success | failure; after
\* a failure the item is not acknowledged and becomes visible again.
\* The dispatcher goes on to the transition to sent only when deliver
\* returned success.
GoesOnToMark_Always(ok) == TRUE

GoesOnToMark(ok) == ok

ResponderDeliver ==
    /\ responder.pc = "deliver"
    /\ \E ok \in BOOLEAN :
          /\ delivered' = [delivered EXCEPT ![responder.msg] = @ \/ ok]
          /\ IF GoesOnToMark(ok)
             THEN /\ responder' = [responder EXCEPT !.pc = "mark"]
                  /\ UNCHANGED responseQueue
             ELSE /\ responseQueue' = [responseQueue EXCEPT ![responder.msg] = @ + 1]
                  /\ responder' = IdleResponder
    /\ UNCHANGED <<storeVars, messageQueue, messageQueueDLQ, nextItem, handler,
                   receiveCalls, processor, reported, claimed>>
    /\ UNCHANGED extVars

\* Conditional transition to sent from the status that was read, then ack;
\* on Conflict the item is left for redelivery.
ResponderMark ==
    LET m == responder.msg IN
    /\ responder.pc = "mark"
    /\ dataTable' = ConditionalPut(dataTable, m, responder.seen, "sent")
    /\ responseQueue' = IF ConditionHolds(dataTable, m, responder.seen)
                        THEN responseQueue
                        ELSE [responseQueue EXCEPT ![m] = @ + 1]
    /\ responder' = IdleResponder
    /\ UNCHANGED <<dataBucket, derived, messageQueue, messageQueueDLQ, nextItem,
                   handler, receiveCalls, processor, histVars>>
    /\ UNCHANGED extVars

\* The invocation dies; its item becomes visible again.
ResponderCrash ==
    /\ responder.pc # "idle"
    /\ responseQueue' = [responseQueue EXCEPT ![responder.msg] = @ + 1]
    /\ responder' = IdleResponder
    /\ UNCHANGED <<storeVars, messageQueue, messageQueueDLQ, nextItem, handler,
                   receiveCalls, processor, histVars>>
    /\ UNCHANGED extVars

Next ==
    \/ \E m \in Msgs : HandlerStart(m)
    \/ HandlerAppend
    \/ HandlerWriteRow
    \/ HandlerEnqueue
    \/ HandlerFail
    \/ \E w \in Workers, i \in ItemIds : Receive(w, i)
    \/ \E i \in ItemIds : Redrive(i)
    \/ \E i \in ItemIds : VisibilityTimeout(i)
    \/ \E w \in Workers : ProcessorRead(w)
    \/ \E w \in Workers : ProcessorClaim(w)
    \/ \E w \in Workers : ProcessorInvoke(w)
    \/ \E w \in Workers : ProcessorWrite(w)
    \/ \E w \in Workers : ProcessorFinish(w)
    \/ \E w \in Workers : ProcessorRespond(w)
    \/ \E w \in Workers : ProcessorAck(w)
    \/ \E w \in Workers : ProcessorCrash(w)
    \/ \E m \in Msgs : ResponderReceive(m)
    \/ ResponderDeliver
    \/ ResponderMark
    \/ ResponderCrash

Spec == Init /\ [][Next]_vars

(***************************************************************************)
(* Scheduling.  A handler invocation that is not cut short takes its next  *)
(* step; the event source keeps polling the queue, so a visible item is    *)
(* received (or redriven) and an expired lease makes its item visible; a   *)
(* processor invocation that does not die takes its next step.  Failures   *)
(* and crashes are never forced.                                           *)
(***************************************************************************)
Fairness ==
    /\ WF_vars(HandlerAppend)
    /\ WF_vars(HandlerWriteRow)
    /\ WF_vars(HandlerEnqueue)
    /\ \A i \in ItemIds : WF_vars(\E w \in Workers : Receive(w, i))
    /\ \A i \in ItemIds : WF_vars(Redrive(i))
    /\ \A i \in ItemIds : WF_vars(VisibilityTimeout(i))
    /\ \A w \in Workers :
          WF_vars(ProcessorRead(w) \/ ProcessorClaim(w) \/ ProcessorInvoke(w)
                    \/ ProcessorWrite(w) \/ ProcessorFinish(w)
                    \/ ProcessorRespond(w) \/ ProcessorAck(w))

\* The pipeline up to the response queue: handler, work queue, processor.
PipelineNext ==
    \/ \E m \in Msgs : HandlerStart(m)
    \/ HandlerAppend
    \/ HandlerWriteRow
    \/ HandlerEnqueue
    \/ HandlerFail
    \/ \E w \in Workers, i \in ItemIds : Receive(w, i)
    \/ \E i \in ItemIds : Redrive(i)
    \/ \E i \in ItemIds : VisibilityTimeout(i)
    \/ \E w \in Workers : ProcessorRead(w)
    \/ \E w \in Workers : ProcessorClaim(w)
    \/ \E w \in Workers : ProcessorInvoke(w)
    \/ \E w \in Workers : ProcessorWrite(w)
    \/ \E w \in Workers : ProcessorFinish(w)
    \/ \E w \in Workers : ProcessorRespond(w)
    \/ \E w \in Workers : ProcessorAck(w)
    \/ \E w \in Workers : ProcessorCrash(w)

FairSpec == Init /\ [][PipelineNext]_vars /\ Fairness

PipelineSpec == Init /\ [][PipelineNext]_vars

(***************************************************************************)
(* Properties.                                                             *)
(***************************************************************************)
\* Work items of message m in the primary queue / the dead-letter queue.
Queued(m) == {i \in DOMAIN messageQueue : messageQueue[i].msg = m}
DeadLettered(m) == {i \in DOMAIN messageQueueDLQ : messageQueueDLQ[i].msg = m}

\* Workers that hold message m after a successful transition out of received.
Owners(m) ==
    {w \in Workers : processor[w].msg = m
                      /\ processor[w].pc \in {"invoke", "write", "finish", "fail", "respond"}}

\* C1 - Idempotent processing: once a work item of a message has been
\* delivered two or more times, no proposed entity of that message has two
\* rows, and a processed message has exactly one row for each proposal.
C1_OneSetOfDerivedEntities ==
    \A m \in Msgs :
        (\E i \in Queued(m) : messageQueue[i].receiveCount >= 2) =>
            /\ \A p \in Proposed : derived[m][p] <= 1
            /\ dataTable[m].status = "processed" =>
                   \A p \in Proposed : derived[m][p] = 1

\* C2 - Status monotonicity: no step moves the stored status of a Message
\* to an earlier position in the order received, processing,
\* {processed, failed}, sent, archived.
C2_StatusNeverRegresses ==
    [][\A m \in Msgs :
          StatusRank(dataTable'[m].status) >= StatusRank(dataTable[m].status)]_vars

Redeliveries(i) ==
    IF i \in DOMAIN messageQueue THEN messageQueue[i].receiveCount - 1
    ELSE IF i \in DOMAIN messageQueueDLQ THEN messageQueueDLQ[i].receiveCount - 1
    ELSE -1

\* C4 - Dead-letter threshold: a work item redelivered 3 times (the
\* configured maximum receive count) without ack is in the dead-letter
\* queue and not in the primary queue, and no work item is in both queues.
C4_DeadLetterThreshold ==
    /\ DOMAIN messageQueue \cap DOMAIN messageQueueDLQ = {}
    /\ \A i \in ItemIds :
          Redeliveries(i) = 3 =>
              i \in DOMAIN messageQueueDLQ /\ i \notin DOMAIN messageQueue

\* A work item has been moved to the dead-letter queue.
C4_Witness ==
    \E i \in DOMAIN messageQueueDLQ : Redeliveries(i) = 3

\* C5 - Bounded redelivery: every delivery to a worker is one of the first
\* 3 receives of an item of the primary queue, an item in the dead-letter
\* queue stays there and no item in the dead-letter queue is delivered.
C5_BoundedRedelivery ==
    [][/\ \A w \in Workers :
             (processor[w].pc = "idle" /\ processor'[w].pc = "read") =>
                 /\ processor'[w].item \in DOMAIN messageQueue
                 /\ processor'[w].item \notin DOMAIN messageQueueDLQ
                 /\ processor'[w].handle <= 3
                 /\ messageQueue'[processor'[w].item].receiveCount
                        = messageQueue[processor'[w].item].receiveCount + 1
       /\ \A i \in DOMAIN messageQueueDLQ :
             i \in DOMAIN messageQueueDLQ' /\ i \notin DOMAIN messageQueue']_vars

\* An item sits in the dead-letter queue while a worker is free.
C5_Witness ==
    /\ messageQueueDLQ # <<>>
    /\ \E w \in Workers : processor[w].pc = "idle"

\* C6 - Single owner per message: at most one conditional transition out
\* of received ever succeeds for a message, and at most one worker at a
\* time invokes the agent or writes derived entities for it.
C6_SingleOwner ==
    \A m \in Msgs : claimed[m] <= 1 /\ Cardinality(Owners(m)) <= 1

\* C7 - Conditional put: a status transition whose expected prior status is
\* not the stored one leaves the Entity Store unchanged and the caller
\* abandons; one that succeeds finds the expected status and replaces it in
\* the same step.
C7_ConditionalPut ==
    [][/\ \A w \in Workers :
             LET m == processor[w].msg
                 expected == IF processor[w].pc = "claim" THEN "received"
                             ELSE "processing" IN
             (processor[w].pc \in {"claim", "finish", "fail"}
                 /\ processor'[w] # processor[w]) =>
                 IF ConditionHolds(dataTable, m, expected)
                 THEN processor'[w].pc = "idle" \/ dataTable'[m].status # expected
                 ELSE dataTable' = dataTable /\ derived' = derived
                      /\ processor'[w].pc = "idle"
       /\ (responder.pc = "mark" /\ responder' # responder
              /\ ~ConditionHolds(dataTable, responder.msg, responder.seen)) =>
             dataTable' = dataTable /\ derived' = derived]_vars

\* A worker is about to attempt a transition that will conflict.
C7_Witness ==
    \E w \in Workers :
        /\ processor[w].pc = "finish"
        /\ ~ConditionHolds(dataTable, processor[w].msg, "processing")

\* C8 - Write-once log: no step changes or removes a Durable Log record
\* that has been appended.
C8_WriteOnceLog ==
    [][\A m \in Msgs :
          GetObject(dataBucket, m) # NoRecord =>
              GetObject(dataBucket', m) = GetObject(dataBucket, m)]_vars

\* A retried receive has appended again under the key of a record that the
\* first, successful call wrote.
C8_Witness ==
    \E m \in Msgs :
        /\ reported[m]
        /\ receiveCalls >= 2
        /\ handler.msg = m
        /\ HandlerAt("row")

\* C9 - Retried receive is safe: whatever receive calls have been made for
\* a message id, its Message row and Durable Log record carry the submitted
\* content and no proposed entity has more rows than after one receive.
C9_RetriedReceiveSafe ==
    \A m \in Msgs :
        /\ dataTable[m].status # "absent" => dataTable[m].raw_content = RawText(m)
        /\ GetObject(dataBucket, m) \in {NoRecord, RawText(m)}
        /\ \A p \in Proposed : derived[m][p] <= 1

TypeOK ==
    /\ \A m \in Msgs : dataBucket[m] \in {NoRecord} \cup {RawText(k) : k \in Msgs}
    /\ \A m \in Msgs : dataTable[m].status \in MessageStatus \cup {"absent"}
    /\ DOMAIN messageQueue \subseteq ItemIds
    /\ DOMAIN messageQueueDLQ \subseteq ItemIds
    /\ receiveCalls \in 0..MaxReceiveCalls

\* The message has been processed or failed, or one of its work items is in
\* the dead-letter queue.
Settled(m) ==
    \/ dataTable[m].status \in {"processed", "failed", "sent", "archived"}
    \/ DeadLettered(m) # {}

\* The message waits in received or processing with no work item left in
\* either queue.
Lost(m) ==
    /\ dataTable[m].status \in {"received", "processing"}
    /\ Queued(m) = {}
    /\ DeadLettered(m) = {}

\* C10 - No silent loss: every message for which receive returned
\* successfully is eventually processed or failed or has a work item in the
\* dead-letter queue, and it never stays forever in received or processing
\* with no work item in either queue.
C10_NoSilentLoss ==
    \A m \in Msgs :
        /\ <>reported[m] => <>Settled(m)
        /\ ~<>[](reported[m] /\ Lost(m))

(***************************************************************************)
(* Response queue: second-brain-responses.  The queue is declared with a   *)
(* visibility timeout and a retention period of 4 hours and without a      *)
(* deadLetterQueue.                                                        *)
(***************************************************************************)
\* The retention period of a response item runs out: the queue deletes it.
ResponseRetention(m) ==
    /\ responseQueue[m] > 0
    /\ responseQueue' = [responseQueue EXCEPT ![m] = @ - 1]
    /\ UNCHANGED <<storeVars, messageQueue, messageQueueDLQ, nextItem, handler,
                   receiveCalls, processor, responder, histVars>>
    /\ UNCHANGED extVars

\* One receive call after another, deliveries without lease expiry, worker
\* and dispatcher invocations that run to their end, and the response
\* queue's retention.
ResponseNext ==
    \/ \E m \in Msgs : HandlerStart(m)
    \/ HandlerAppend
    \/ HandlerWriteRow
    \/ HandlerEnqueue
    \/ \E w \in Workers, i \in ItemIds : Receive(w, i)
    \/ \E w \in Workers : ProcessorRead(w)
    \/ \E w \in Workers : ProcessorClaim(w)
    \/ \E w \in Workers : ProcessorInvoke(w)
    \/ \E w \in Workers : ProcessorWrite(w)
    \/ \E w \in Workers : ProcessorFinish(w)
    \/ \E w \in Workers : ProcessorRespond(w)
    \/ \E w \in Workers : ProcessorAck(w)
    \/ \E m \in Msgs : ResponderReceive(m)
    \/ ResponderDeliver
    \/ ResponderMark
    \/ ResponderCrash
    \/ \E m \in Msgs : ResponseRetention(m)

ResponseSpec == Init /\ [][ResponseNext]_vars

\* Response work items of message m: in the queue or leased by the
\* dispatcher.
ResponseItems(m) ==
    responseQueue[m] + (IF responder.pc # "idle" /\ responder.msg = m THEN 1 ELSE 0)

\* C11 - Response items are parked, not dropped: a response work item
\* leaves the system only by the dispatcher's ack after a successful
\* delivery or by a move to a dead-letter queue (the response queue has
\* none, so only by that ack).
C11_ResponseItemsNotDropped ==
    [][\A m \in Msgs :
          ResponseItems(m)' < ResponseItems(m) =>
              /\ responder.pc = "mark"
              /\ responder.msg = m
              /\ delivered[m]]_vars

(***************************************************************************)
(* Replay Engine: replay(namespace, time_range, target_store) over the     *)
(* full time range.  It reads the raw events in ascending order and, for   *)
(* each, writes a fresh Message row into the target store and drives it    *)
(* through the steps of the Processing Worker.  Generated ids and          *)
(* timestamps are not represented: a store counts the rows written for     *)
(* each proposal of each message.                                          *)
(***************************************************************************)
\* Records after position `cursor`; message ids stand for the time-ordered
\* keys of the records.
Remaining(bucket, cursor) ==
    {m \in Msgs : m > cursor /\ GetObject(bucket, m) # NoRecord}

NextRecord(bucket, cursor) ==
    IF Remaining(bucket, cursor) = {} THEN NoMsg
    ELSE CHOOSE m \in Remaining(bucket, cursor) :
             \A k \in Remaining(bucket, cursor) : m <= k

\* The fresh Message row for a log record: built from the record, never
\* from the production Entity Store.
SynthesizeRow_FromStore(bucket, m) == dataTable[m]

SynthesizeRow(bucket, m) ==
    [status |-> "received", raw_content |-> GetObject(bucket, m), s3_key |-> m]

\* The production rows of proposal p of message m after replay wrote that
\* proposal: replay writes into the target store only.
ProductionEntities_Written(prod, m, p) == [prod EXCEPT ![m][p] = @ + 1]

ProductionEntities(prod, m, p) == prod

\* Runs are independent of each other: they are taken one after another.
ReplayStart(r) ==
    /\ replay[r].pc = "idle"
    /\ r > 1 => replay[r - 1].pc = "done"
    /\ replay' = [replay EXCEPT ![r].pc = "list"]
    /\ UNCHANGED <<pipeVars, agentCalls, invocations, toolVars, agentScript, target, listVars>>

\* Take the next record of the log, or finish; write its Message row.
ReplayList(r) ==
    LET m == NextRecord(dataBucket, replay[r].cursor) IN
    /\ replay[r].pc = "list"
    /\ IF m = NoMsg
       THEN /\ replay' = [replay EXCEPT ![r].pc = "done"]
            /\ UNCHANGED target
       ELSE /\ replay' = [replay EXCEPT ![r].pc = "read", ![r].cursor = m,
                                        ![r].next = 1, ![r].listed = @ \cup {m}]
            /\ target' = [target EXCEPT ![r].table =
                              PutItem(@, m, SynthesizeRow(dataBucket, m))]
    /\ UNCHANGED <<pipeVars, agentCalls, invocations, toolVars, agentScript, listVars>>

\* Read the Message; a processed or failed one is skipped.
ReplayRead(r) ==
    /\ replay[r].pc = "read"
    /\ replay' = [replay EXCEPT ![r].pc =
                     IF target[r].table[replay[r].cursor].status
                            \in {"processed", "failed"}
                     THEN "list" ELSE "claim"]
    /\ UNCHANGED <<pipeVars, agentCalls, invocations, toolVars, agentScript, target, listVars>>

\* Conditional transition received -> processing in the target store.
ReplayClaim(r) ==
    LET m == replay[r].cursor IN
    /\ replay[r].pc = "claim"
    /\ target' = [target EXCEPT ![r].table =
                      ConditionalPut(@, m, "received", "processing")]
    /\ replay' = [replay EXCEPT ![r].pc =
                      IF ConditionHolds(target[r].table, m, "received")
                      THEN "invoke" ELSE "list"]
    /\ UNCHANGED <<pipeVars, agentCalls, invocations, toolVars, agentScript, listVars>>

ReplayInvoke(r) ==
    /\ replay[r].pc = "invoke"
    /\ \E errors \in 0..(LocalRetryBound + 1), last \in {"response", "permanent"} :
          /\ AgentFollows(errors, last)
          /\ replay' = [replay EXCEPT ![r].pc = AgentOutcome(errors, last)]
    /\ UNCHANGED <<pipeVars, agentCalls, invocations, toolVars, agentScript, target, listVars>>

\* Write the next proposed entity into the target store.
ReplayWrite(r) ==
    LET m == replay[r].cursor
        p == replay[r].next IN
    /\ replay[r].pc = "write"
    /\ target' = [target EXCEPT ![r].derived[m][p] = @ + 1]
    /\ derived' = ProductionEntities(derived, m, p)
    /\ replay' = [replay EXCEPT ![r] =
                      IF p = NumProposed THEN [@ EXCEPT !.pc = "finish"]
                      ELSE [@ EXCEPT !.next = p + 1]]
    /\ UNCHANGED <<dataBucket, dataTable, queueVars, handler, receiveCalls,
                   processor, responder, histVars, agentScript, listVars,
                   agentCalls, invocations, toolVars>>

\* Conditional transition processing -> processed or failed, then on to the
\* next record.
ReplayFinish(r) ==
    LET m == replay[r].cursor
        new == IF replay[r].pc = "finish" THEN "processed" ELSE "failed" IN
    /\ replay[r].pc \in {"finish", "fail"}
    /\ target' = [target EXCEPT ![r].table =
                      ConditionalPut(@, m, "processing", new)]
    /\ replay' = [replay EXCEPT ![r].pc = "list"]
    /\ UNCHANGED <<pipeVars, agentCalls, invocations, toolVars, agentScript, listVars>>

\* Production without lease expiry and crashes, and the replay runs.
ReplayNext ==
    \/ \E m \in Msgs : HandlerStart(m)
    \/ HandlerAppend
    \/ HandlerWriteRow
    \/ HandlerEnqueue
    \/ \E w \in Workers, i \in ItemIds : Receive(w, i)
    \/ \E w \in Workers : ProcessorRead(w)
    \/ \E w \in Workers : ProcessorClaim(w)
    \/ \E w \in Workers : ProcessorInvoke(w)
    \/ \E w \in Workers : ProcessorWrite(w)
    \/ \E w \in Workers : ProcessorFinish(w)
    \/ \E w \in Workers : ProcessorRespond(w)
    \/ \E w \in Workers : ProcessorAck(w)
    \/ \E r \in Runs : ReplayStart(r)
    \/ \E r \in Runs : ReplayList(r)
    \/ \E r \in Runs : ReplayRead(r)
    \/ \E r \in Runs : ReplayClaim(r)
    \/ \E r \in Runs : ReplayInvoke(r)
    \/ \E r \in Runs : ReplayWrite(r)
    \/ \E r \in Runs : ReplayFinish(r)

ReplaySpec == ScriptedInit /\ [][ReplayNext]_vars

\* Production is done with message m: no receive call and no worker is
\* busy with it and none of its work items waits in the message queue.
ProductionDone(m) ==
    /\ handler.msg # m
    /\ \A w \in Workers : processor[w].msg # m
    /\ Queued(m) = {}

\* C12 - Replay matches the original run: with a deterministic agent, once
\* production is done with a message (processed or failed) and a replay of
\* the full log has finished, the target store holds the message in the
\* same status and with as many rows for every proposal as the production
\* store, whatever the order of the production steps.
C12_ReplayMatchesProduction ==
    \A r \in Runs : \A m \in Msgs :
        (/\ replay[r].pc = "done"
         /\ m \in replay[r].listed
         /\ ProductionDone(m)
         /\ dataTable[m].status \in {"processed", "failed"}) =>
            /\ target[r].table[m].status = dataTable[m].status
            /\ \A p \in Proposed : target[r].derived[m][p] = derived[m][p]

TtlExpiry(m) ==
    /\ dataTable[m].status # "absent"
    /\ ProductionDone(m)
    /\ dataTable' = [dataTable EXCEPT ![m] = NoRow]
    /\ UNCHANGED <<dataBucket, derived, queueVars, handler, receiveCalls,
                   processor, responder, histVars>>
    /\ UNCHANGED extVars

\* Production without lease expiry and crashes, and the expiry of rows.
ExpiryNext ==
    \/ \E m \in Msgs : HandlerStart(m)
    \/ HandlerAppend
    \/ HandlerWriteRow
    \/ HandlerEnqueue
    \/ \E w \in Workers, i \in ItemIds : Receive(w, i)
    \/ \E w \in Workers : ProcessorRead(w)
    \/ \E w \in Workers : ProcessorClaim(w)
    \/ \E w \in Workers : ProcessorInvoke(w)
    \/ \E w \in Workers : ProcessorWrite(w)
    \/ \E w \in Workers : ProcessorFinish(w)
    \/ \E w \in Workers : ProcessorRespond(w)
    \/ \E w \in Workers : ProcessorAck(w)
    \/ \E m \in Msgs : TtlExpiry(m)

ExpirySpec == Init /\ [][ExpiryNext]_vars

ScenarioNext ==
    \/ \E m \in Msgs : HandlerStart(m)
    \/ HandlerAppend
    \/ HandlerWriteRow
    \/ HandlerEnqueue
    \/ \E w \in Workers, i \in ItemIds : Receive(w, i)
    \/ \E w \in Workers : ProcessorRead(w)
    \/ \E w \in Workers : ProcessorClaim(w)
    \/ \E w \in Workers : ProcessorInvoke(w)
    \/ \E w \in Workers : ProcessorWrite(w)
    \/ \E w \in Workers : ProcessorFinish(w)
    \/ \E w \in Workers : ProcessorRespond(w)
    \/ \E w \in Workers : ProcessorAck(w)
    \/ \E m \in Msgs : ResponderReceive(m)
    \/ ResponderDeliver
    \/ ResponderMark

\* Every invocation takes its next step, the event sources keep polling,
\* and a delivery that is attempted again and again succeeds in the end.
ScenarioFairness ==
    /\ WF_vars(HandlerAppend)
    /\ WF_vars(HandlerWriteRow)
    /\ WF_vars(HandlerEnqueue)
    /\ \A i \in ItemIds : WF_vars(\E w \in Workers : Receive(w, i))
    /\ \A w \in Workers :
          WF_vars(ProcessorRead(w) \/ ProcessorClaim(w) \/ ProcessorInvoke(w)
                    \/ ProcessorWrite(w) \/ ProcessorFinish(w)
                    \/ ProcessorRespond(w) \/ ProcessorAck(w))
    /\ \A m \in Msgs : WF_vars(ResponderReceive(m))
    /\ WF_vars(ResponderDeliver)
    /\ WF_vars(ResponderMark)
    /\ SF_vars(ResponderDeliver /\ responder'.pc = "mark")

ScenarioSpec == ScriptedInit /\ [][ScenarioNext]_vars /\ ScenarioFairness

\* The stub agent raises at most LocalRetryBound transient errors in a row
\* and then answers.
TransientThenSuccess ==
    agentScript.errors <= LocalRetryBound /\ agentScript.last = "response"

\* The stub agent fails permanently.
PermanentFailure == agentScript.last = "permanent"

\* The dispatcher has just delivered the failure notice of message m.
FailureNoticeDelivered(m) ==
    responder.pc = "mark" /\ responder.msg = m /\ responder.seen = "failed"

C17_PermanentAgentFailure ==
    PermanentFailure =>
        \A m \in Msgs :
            /\ [](\A p \in Proposed : derived[m][p] = 0)
            /\ [](dataTable[m].status # "processed")
            /\ <>reported[m] => <>(dataTable[m].status = "failed")
            /\ <>reported[m] => <>FailureNoticeDelivered(m)

AppendRawEvent(id) ==
    /\ listing.pc = "idle"
    /\ id \notin DOMAIN rawEvents
    /\ clock < MaxClock
    /\ clock' = clock + 1
    /\ rawEvents' = [k \in DOMAIN rawEvents \cup {id} |->
                        IF k = id THEN [timestamp |-> clock + 1,
                                        modified |-> clock + 1]
                        ELSE rawEvents[k]]
    /\ UNCHANGED <<pipeVars, agentCalls, invocations, toolVars, agentScript, replayVars, listing>>

\* A retried receive appends the same event again: PutObject replaces the
\* object under the same key, which renews its last-modified time.
ReappendRawEvent(id) ==
    /\ listing.pc = "idle"
    /\ id \in DOMAIN rawEvents
    /\ clock < MaxClock
    /\ clock' = clock + 1
    /\ rawEvents' = [rawEvents EXCEPT ![id].modified = clock + 1]
    /\ UNCHANGED <<pipeVars, agentCalls, invocations, toolVars, agentScript, replayVars, listing>>

\* The members of S as a sequence in ascending order of rank (ranks are
\* distinct).
RECURSIVE Ascending(_, _)
Ascending(S, rank) ==
    IF S = {} THEN <<>>
    ELSE LET first == CHOOSE x \in S : \A y \in S : rank[x] <= rank[y]
         IN <<first>> \o Ascending(S \ {first}, rank)

\* `aws s3 ls <prefix> | sort`: the references in the order of the sorted
\* lines, that is by last-modified time.
ListLog(objects) ==
    Ascending(DOMAIN objects, [id \in DOMAIN objects |-> objects[id].modified])

\* The references in ascending order of the records' timestamps.
ByTimestamp(objects) ==
    Ascending(DOMAIN objects, [id \in DOMAIN objects |-> objects[id].timestamp])

\* list(namespace, time_range) over the day of the prefix starts.
ListStart ==
    /\ listing.pc = "idle"
    /\ rawEvents # <<>>
    /\ listing' = [pc |-> "listing", pos |-> 0, refs |-> <<>>]
    /\ UNCHANGED <<pipeVars, agentCalls, invocations, toolVars, agentScript, replayVars, rawEvents, clock>>

\* The listing yields its next reference.
ListNext ==
    /\ listing.pc = "listing"
    /\ listing.pos < Len(ListLog(rawEvents))
    /\ listing' = [listing EXCEPT
                       !.pos = @ + 1,
                       !.refs = Append(@, ListLog(rawEvents)[listing.pos + 1])]
    /\ UNCHANGED <<pipeVars, agentCalls, invocations, toolVars, agentScript, replayVars, rawEvents, clock>>

\* The listing is interrupted and resumed from a position it had returned.
ListResume(k) ==
    /\ listing.pc = "listing"
    /\ k < listing.pos
    /\ listing' = [listing EXCEPT !.pos = k, !.refs = SubSeq(@, 1, k)]
    /\ UNCHANGED <<pipeVars, agentCalls, invocations, toolVars, agentScript, replayVars, rawEvents, clock>>

\* The listing is dropped; the prefix can be written again.
ListEnd ==
    /\ listing.pc = "listing"
    /\ listing' = IdleListing
    /\ UNCHANGED <<pipeVars, agentCalls, invocations, toolVars, agentScript, replayVars, rawEvents, clock>>

LogNext ==
    \/ \E id \in RawEventIds : AppendRawEvent(id)
    \/ \E id \in RawEventIds : ReappendRawEvent(id)
    \/ ListStart
    \/ ListNext
    \/ \E k \in 0..NumRawEvents : ListResume(k)
    \/ ListEnd

LogSpec == Init /\ [][LogNext]_vars

\* C19 - Log listing order: what list has yielded so far, also after it
\* was resumed from a returned position, is the start of the sequence of
\* the appended records' references in ascending timestamp order, each
\* once; a listing that has run to its end has yielded all of them.
C19_LogListingOrder ==
    /\ listing.refs = SubSeq(ByTimestamp(rawEvents), 1, Len(listing.refs))
    /\ Len(listing.refs) = listing.pos
    /\ listing.pos <= Cardinality(DOMAIN rawEvents)

\* The lease worker w holds is the latest one issued for its work item.
LeaseCurrent(w) ==
    /\ processor[w].item \in DOMAIN messageQueue
    /\ messageQueue[processor[w].item].receiveCount = processor[w].handle

\* Work item i is in the message queue, waiting to be received again.
VisibleAgain(i) ==
    /\ i \in DOMAIN messageQueue
    /\ messageQueue[i].visible
    /\ messageQueue[i].receiveCount >= 1

\* Work item i is in the message queue and leased.
InFlight(i) == i \in DOMAIN messageQueue /\ ~messageQueue[i].visible

C21_ShortCircuitOnDuplicates ==
    [][\A w \in Workers :
          /\ (ProcessorRead(w)
                 /\ dataTable[processor[w].msg].status \in {"processed", "failed"}) =>
                 /\ processor'[w].pc = "ack"
                 /\ UNCHANGED <<storeVars, queueVars, claimed>>
          /\ (processor[w].pc = "ack" /\ processor'[w] # processor[w]) =>
                 /\ processor'[w].pc = "idle"
                 /\ UNCHANGED <<storeVars, responseQueue, claimed>>
                 /\ (ProcessorAck(w) /\ LeaseCurrent(w)) =>
                        processor[w].item \notin DOMAIN messageQueue']_vars

\* A worker read a processed Message on a duplicate delivery and is about
\* to ack: it wrote no entity itself.
C21_Witness ==
    \E w \in Workers :
        /\ processor[w].pc = "ack"
        /\ processor[w].next = 1
        /\ dataTable[processor[w].msg].status = "processed"

\* C22 - A response is always queued: every Message that reaches status
\* processed or failed eventually has a response work item enqueued for
\* it, whatever workers stop and whatever is redelivered.
C22_ResponseAlwaysQueued ==
    \A m \in Msgs :
        (dataTable[m].status \in {"processed", "failed"}) ~> (responseQueue[m] > 0)

(***************************************************************************)
(* Cost of the agent: the calls of infer() made for a message, counted     *)
(* over all deliveries of its work items.                                  *)
(***************************************************************************)
\* Calls the local retry loop makes when the agent raises `errors`
\* transient errors in a row: the first call and at most LocalRetryBound
\* retries.
InferCalls(errors) ==
    IF errors > LocalRetryBound THEN LocalRetryBound + 1 ELSE errors + 1

\* ProcessorInvoke with its calls of infer() counted.
ProcessorInvokeMetered(w) ==
    /\ processor[w].pc = "invoke"
    /\ \E errors \in 0..(LocalRetryBound + 1), last \in {"response", "permanent"} :
          /\ AgentFollows(errors, last)
          /\ processor' = [processor EXCEPT ![w].pc = AgentOutcome(errors, last)]
          /\ agentCalls' = [agentCalls EXCEPT ![processor[w].msg] =
                                @ + InferCalls(errors)]
    /\ UNCHANGED <<storeVars, queueVars, handler, receiveCalls, responder,
                   histVars>>
    /\ UNCHANGED <<agentScript, replayVars, listVars, invocations, toolVars>>

\* The pipeline up to the response queue, the calls of infer() counted.
CostNext ==
    \/ \E m \in Msgs : HandlerStart(m)
    \/ HandlerAppend
    \/ HandlerWriteRow
    \/ HandlerEnqueue
    \/ HandlerFail
    \/ \E w \in Workers, i \in ItemIds : Receive(w, i)
    \/ \E i \in ItemIds : Redrive(i)
    \/ \E i \in ItemIds : VisibilityTimeout(i)
    \/ \E w \in Workers : ProcessorRead(w)
    \/ \E w \in Workers : ProcessorClaim(w)
    \/ \E w \in Workers : ProcessorInvokeMetered(w)
    \/ \E w \in Workers : ProcessorWrite(w)
    \/ \E w \in Workers : ProcessorFinish(w)
    \/ \E w \in Workers : ProcessorRespond(w)
    \/ \E w \in Workers : ProcessorAck(w)
    \/ \E w \in Workers : ProcessorCrash(w)

\* The scheduling of FairSpec.
CostFairness ==
    /\ WF_vars(HandlerAppend)
    /\ WF_vars(HandlerWriteRow)
    /\ WF_vars(HandlerEnqueue)
    /\ \A i \in ItemIds : WF_vars(\E w \in Workers : Receive(w, i))
    /\ \A i \in ItemIds : WF_vars(Redrive(i))
    /\ \A i \in ItemIds : WF_vars(VisibilityTimeout(i))
    /\ \A w \in Workers :
          WF_vars(ProcessorRead(w) \/ ProcessorClaim(w)
                    \/ ProcessorInvokeMetered(w)
                    \/ ProcessorWrite(w) \/ ProcessorFinish(w)
                    \/ ProcessorRespond(w) \/ ProcessorAck(w))

CostSpec == Init /\ [][CostNext]_vars /\ CostFairness

\* The cost bound of a message: the local retry bound per delivery times
\* the maximum receive count of the message queue.
CostBound == LocalRetryBound * maxReceiveCount

\* C23 - Bounded agent cost: the calls of infer() made for a message never
\* exceed the local retry bound times the queue's maximum receive count,
\* no call of infer() is made for a message whose Message has status
\* processed or failed, and once the Message has had one of these statuses
\* no further call of infer() is made for it.
C23_BoundedAgentCost ==
    /\ [][\A m \in Msgs :
              agentCalls'[m] # agentCalls[m] =>
                  dataTable[m].status \notin {"processed", "failed"}]_vars
    /\ \A m \in Msgs :
          /\ [](agentCalls[m] <= CostBound)
          /\ \A n \in 0..CostBound :
                []((dataTable[m].status \in {"processed", "failed"}
                       /\ agentCalls[m] = n) => [](agentCalls[m] = n))

Stored(m) ==
    /\ dataTable[m].status # "absent"
    /\ GetObject(dataBucket, m) # NoRecord

\* C25 - Work items reference stored messages: every processing work item
\* that is in the message queue, visible or leased, and every work item a
\* worker holds, references a message id for which both a Message row and
\* a Durable Log record exist.
C25_WorkItemsReferenceStored ==
    /\ \A i \in DOMAIN messageQueue : Stored(messageQueue[i].msg)
    /\ \A w \in Workers : processor[w].pc # "idle" => Stored(processor[w].msg)

\* After two receive calls a work item waits in the message queue and a
\* worker holds a leased one.
C25_Witness ==
    /\ \E i \in DOMAIN messageQueue : messageQueue[i].visible
    /\ \E w \in Workers : processor[w].pc = "read"
    /\ receiveCalls = 2

(***************************************************************************)
(* Access to the bucket.  The message handler is granted write access to   *)
(* raw-events/*, the processing function read access to raw-events/*; the  *)
(* response handler has no grant on the bucket.  A PutObject of a role     *)
(* without write access is denied and leaves the bucket as it is.          *)
(***************************************************************************)
BucketGrants_ProcessorWrites ==
    [messageHandler |-> {"write"}, processor |-> {"read", "write"},
     responder |-> {}]

BucketGrants ==
    [messageHandler |-> {"write"}, processor |-> {"read"}, responder |-> {}]

Allowed(role, access) == access \in BucketGrants[role]

\* PutObject called under a role.
PutObjectAs(role, bucket, key, payload) ==
    IF Allowed(role, "write") THEN PutObject(bucket, key, payload) ELSE bucket

\* Whatever a processor invocation does, a write of its to a key under
\* raw-events/ goes through the grants of its role.
ProcessorPutAttempt(w, m) ==
    /\ processor[w].pc # "idle"
    /\ dataBucket' = PutObjectAs("processor", dataBucket, m, "")
    /\ UNCHANGED <<dataTable, derived, queueVars, handler, receiveCalls,
                   processor, responder, histVars>>
    /\ UNCHANGED extVars

\* The same for an invocation of the response handler.
ResponderPutAttempt(m) ==
    /\ responder.pc # "idle"
    /\ dataBucket' = PutObjectAs("responder", dataBucket, m, "")
    /\ UNCHANGED <<dataTable, derived, queueVars, handler, receiveCalls,
                   processor, responder, histVars>>
    /\ UNCHANGED extVars

\* Handler, workers and dispatcher, and their attempts to write the bucket.
AccessNext ==
    \/ \E m \in Msgs : HandlerStart(m)
    \/ HandlerAppend
    \/ HandlerWriteRow
    \/ HandlerEnqueue
    \/ HandlerFail
    \/ \E w \in Workers, i \in ItemIds : Receive(w, i)
    \/ \E w \in Workers : ProcessorRead(w)
    \/ \E w \in Workers : ProcessorClaim(w)
    \/ \E w \in Workers : ProcessorInvoke(w)
    \/ \E w \in Workers : ProcessorWrite(w)
    \/ \E w \in Workers : ProcessorFinish(w)
    \/ \E w \in Workers : ProcessorRespond(w)
    \/ \E w \in Workers : ProcessorAck(w)
    \/ \E w \in Workers : ProcessorCrash(w)
    \/ \E m \in Msgs : ResponderReceive(m)
    \/ ResponderDeliver
    \/ ResponderMark
    \/ ResponderCrash
    \/ \E w \in Workers, m \in Msgs : ProcessorPutAttempt(w, m)
    \/ \E m \in Msgs : ResponderPutAttempt(m)

AccessSpec == Init /\ [][AccessNext]_vars

\* C26 - Only the Ingress Receiver appends to the Durable Log: every step
\* that changes the log is the append of a receive call, and every step of
\* a processor or dispatcher invocation, an attempted write of the bucket
\* included, leaves the log unchanged.
C26_OnlyReceiverAppends ==
    [][/\ dataBucket' # dataBucket => (HandlerAt("append") /\ handler' # handler)
       /\ (processor' # processor \/ responder' # responder) =>
              dataBucket' = dataBucket
       /\ \A m \in Msgs :
              (ResponderPutAttempt(m) \/ \E w \in Workers : ProcessorPutAttempt(w, m)) =>
                  dataBucket' = dataBucket]_vars

\* A worker and the dispatcher are at work on a message whose record is in
\* the log.
C26_Witness ==
    \E m \in Msgs :
        /\ GetObject(dataBucket, m) = RawText(m)
        /\ responder.pc = "mark" /\ responder.msg = m
        /\ \E w \in Workers : processor[w].pc # "idle" /\ processor[w].msg = m

(***************************************************************************)
(* The event source of the processing function: SqsEventSource on the      *)
(* message queue with batchSize 1 and maxConcurrency 5.  An invocation is  *)
(* represented by its batch, the leases (work item, receipt handle) it was *)
(* handed; what the invocation does with them is left open, it returns     *)
(* with or without having acked them.                                      *)
(***************************************************************************)
\* The leases the message queue can issue: a work item and the number of
\* the receive that delivered it.
Leases == ItemIds \X (1..maxReceiveCount)

\* Work items the event source can receive now.
Receivable ==
    {i \in DOMAIN messageQueue :
         messageQueue[i].visible /\ ~Exhausted(messageQueue[i])}

\* The batches the event source may hand to one invocation.
Batches ==
    {b \in SUBSET Receivable : b # {} /\ Cardinality(b) <= batchSize}

\* The event source receives a batch and starts an invocation with it.
EventSourceInvoke(batch) ==
    /\ batch \in Batches
    /\ Cardinality(invocations) < maxConcurrency
    /\ messageQueue' = [i \in DOMAIN messageQueue |->
                           IF i \in batch
                           THEN [messageQueue[i] EXCEPT !.receiveCount = @ + 1,
                                                        !.visible = FALSE]
                           ELSE messageQueue[i]]
    /\ invocations' = invocations \cup
                          {{<<i, messageQueue[i].receiveCount + 1>> : i \in batch}}
    /\ UNCHANGED <<storeVars, messageQueueDLQ, responseQueue, nextItem,
                   handler, receiveCalls, processor, responder, histVars>>
    /\ UNCHANGED <<agentScript, replayVars, listVars, agentCalls, toolVars>>

\* The queue after the leases of a batch have been acked.
RECURSIVE DeleteBatch(_, _)
DeleteBatch(queue, leases) ==
    IF leases = {} THEN queue
    ELSE LET l == CHOOSE x \in leases : TRUE
         IN DeleteBatch(DeleteMessage(queue, l[1], l[2]), leases \ {l})

\* An invocation ends: it acked its batch, or it gave up or died and acked
\* nothing.
InvocationEnd(inv, acked) ==
    /\ inv \in invocations
    /\ invocations' = invocations \ {inv}
    /\ messageQueue' = IF acked THEN DeleteBatch(messageQueue, inv)
                       ELSE messageQueue
    /\ UNCHANGED <<storeVars, messageQueueDLQ, responseQueue, nextItem,
                   handler, receiveCalls, processor, responder, histVars>>
    /\ UNCHANGED <<agentScript, replayVars, listVars, agentCalls, toolVars>>

\* Receive calls, the message queue with its lease expiry and redrive, and
\* the invocations the event source starts.
EventSourceNext ==
    \/ \E m \in Msgs : HandlerStart(m)
    \/ HandlerAppend
    \/ HandlerWriteRow
    \/ HandlerEnqueue
    \/ HandlerFail
    \/ \E batch \in SUBSET ItemIds : EventSourceInvoke(batch)
    \/ \E i \in ItemIds : Redrive(i)
    \/ \E i \in ItemIds : VisibilityTimeout(i)
    \/ \E inv \in SUBSET Leases, acked \in BOOLEAN : InvocationEnd(inv, acked)

EventSourceSpec == Init /\ [][EventSourceNext]_vars

\* C27 - Concurrency cap: at any time at most 5 invocations of the
\* processing function are in progress on the message queue, and each of
\* them holds the lease of exactly one work item.
C27_ConcurrencyCap ==
    /\ Cardinality(invocations) <= 5
    /\ \A inv \in invocations : Cardinality(inv) = 1

\* Five invocations are in progress while a work item waits, visible and
\* not used up, in the message queue.
C27_Witness ==
    /\ Cardinality(invocations) = 5
    /\ Receivable # {}

(***************************************************************************)
(* The Docker build context of the agent image: copyPackage copies a       *)
(* package's src/ with copyDirRecursive, which skips the entries whose     *)
(* name is in CACHE_DIRS.  A file name is a stem and a suffix; an entry is *)
(* the sequence of names from src/ down to it.                             *)
(***************************************************************************)
Name(stem, suffix) == [stem |-> stem, suffix |-> suffix]

\* BedrockAgentDockerImage.CACHE_DIRS, a set of strings.
CACHE_DIRS ==
    {Name("__pycache__", ""), Name(".pytest_cache", ""), Name(".mypy_cache", ""),
     Name(".ruff_cache", ""), Name(".coverage", ""), Name("htmlcov", ""),
     Name(".hypothesis", ""), Name(".tox", ""), Name("dist", ""),
     Name("build", ""), Name("*", ".egg-info")}

\* The names that occur under src/: a package directory, a module, a
\* bytecode cache and the metadata directory of an editable install.
EntryNames ==
    {Name("sb_bedrock", ""), Name("main", ".py"), Name("__pycache__", ""),
     Name("foo", ".egg-info")}

\* fs.statSync(entry).isDirectory(): here everything but a module.
IsDirectory(name) == name.suffix # ".py"

RECURSIVE EntriesOfDepth(_)
EntriesOfDepth(d) ==
    IF d = 0 THEN {<<>>}
    ELSE {Append(p, n) : p \in EntriesOfDepth(d - 1), n \in EntryNames}

AllEntries == UNION {EntriesOfDepth(d) : d \in 1..MaxDepth}

Parent(p) == SubSeq(p, 1, Len(p) - 1)

\* The trees src/ can be: every entry below the top lies in a directory of
\* the tree.
SourceTrees ==
    {t \in SUBSET AllEntries :
         \A p \in t : Len(p) > 1 =>
             Parent(p) \in t /\ IsDirectory(p[Len(p) - 1])}

\* fs.readdirSync(dir): the entries directly in dir.
ReadDir(tree, dir) == {p \in tree : Len(p) = Len(dir) + 1 /\ Parent(p) = dir}

\* copyDirRecursive(src, dest): the entries copied from dir downwards.
RECURSIVE copyDirRecursive(_, _)
copyDirRecursive(tree, dir) ==
    UNION {IF p[Len(p)] \in CACHE_DIRS THEN {}
           ELSE IF IsDirectory(p[Len(p)]) THEN {p} \cup copyDirRecursive(tree, p)
           ELSE {p} : p \in ReadDir(tree, dir)}

\* copyPackage copies src/ into the build context.
CopyPackage ==
    /\ buildContext = NotBuilt
    /\ buildContext' = [built |-> TRUE,
                        entries |-> copyDirRecursive(packageSrc, <<>>)]
    /\ UNCHANGED <<pipeVars, agentScript, replayVars, listVars, agentCalls,
                   invocations, packageSrc, hashVars, rootVars>>

\* A package with any tree under src/.
BuildInit ==
    /\ PipelineInit
    /\ agentScript = AnyScript
    /\ ReplayInit
    /\ ListingInit
    /\ MeterInit
    /\ packageSrc \in SourceTrees
    /\ buildContext = NotBuilt
    /\ HashIdle
    /\ RootIdle

BuildSpec == BuildInit /\ [][CopyPackage]_vars

\* A name the build context is to be free of: one of the listed cache
\* names, *.egg-info standing for every name that ends with .egg-info.
CacheEntry(name) ==
    \/ name \in CACHE_DIRS
    \/ name.suffix = ".egg-info"

\* C28 - Minimal build context: the build context holds every entry under
\* src/ that is not, and does not lie in, an entry with a listed cache
\* name, and holds no entry named __pycache__, .pytest_cache, .mypy_cache,
\* .ruff_cache, .coverage, htmlcov, .hypothesis, .tox, dist, build or
\* *.egg-info (such as foo.egg-info) at any depth.
C28_MinimalBuildContext ==
    buildContext.built =>
        /\ \A p \in packageSrc :
              (\A k \in 1..Len(p) : ~CacheEntry(p[k])) =>
                  p \in buildContext.entries
        /\ \A p \in buildContext.entries :
              p \in packageSrc /\ \A k \in 1..Len(p) : ~CacheEntry(p[k])

(***************************************************************************)
(* The asset hash of the Lambda layer: computeSourceHash collects the .py  *)
(* files of the shared and the lambda package, sorts their paths and       *)
(* feeds the contents, one after another, into one SHA-256 digest.         *)
(***************************************************************************)
\* The paths a file of the two packages can have, in the order in which
\* files.sort() puts them.
PathNames ==
    <<"packages/lambda/src/sb_lambda/a.py",
      "packages/lambda/src/sb_lambda/b.py",
      "packages/lambda/src/sb_lambda/b.txt",
      "packages/shared/src/sb_shared/c.py">>

FilePaths == 1..Len(PathNames)

\* entry.name.endsWith('.py')
EndsWithPy(f) == <<TRUE, TRUE, FALSE, TRUE>>[f]

Chars == {"x", "y"}

\* File contents: strings of up to MaxContentLen characters.
Contents == UNION {[1..n -> Chars] : n \in 0..MaxContentLen}

\* The trees the two package directories can hold: path -> content.
FileTrees == UNION {[S -> Contents] : S \in SUBSET FilePaths}

\* collectFiles over both packages: the paths of the .py files.
collectFiles(tree) == {f \in DOMAIN tree : EndsWithPy(f)}

\* The digest after hash.update(content) for each file in sorted order:
\* a digest of the concatenated contents.
RECURSIVE Concatenated(_, _)
Concatenated(tree, files) ==
    IF files = {} THEN <<>>
    ELSE LET first == CHOOSE f \in files : \A g \in files : f <= g
         IN tree[first] \o Concatenated(tree, files \ {first})

\* SHA-256, taken to be free of collisions: the digest determines the data.
Digest(data) == <<"sha256", data>>

computeSourceHash(tree) == Digest(Concatenated(tree, collectFiles(tree)))

\* cdk synth: the layer asset is built from the sources under the hash.
Synth ==
    /\ ~layer.built \/ layer.tree # sources
    /\ layer' = [built |-> TRUE, tree |-> sources,
                 hash |-> computeSourceHash(sources)]
    /\ UNCHANGED <<pipeVars, agentScript, replayVars, listVars, agentCalls,
                   invocations, buildVars, sources, rootVars>>

\* The sources as they were synthesized are being edited.
Editable == layer.built /\ layer.tree = sources

\* A developer edits the content of a file.
EditFile(f, content) ==
    /\ Editable
    /\ f \in DOMAIN sources
    /\ content # sources[f]
    /\ sources' = [sources EXCEPT ![f] = content]
    /\ UNCHANGED <<pipeVars, agentScript, replayVars, listVars, agentCalls,
                   invocations, buildVars, layer, rootVars>>

AddFile(f, content) ==
    /\ Editable
    /\ f \notin DOMAIN sources
    /\ sources' = [g \in DOMAIN sources \cup {f} |->
                      IF g = f THEN content ELSE sources[g]]
    /\ UNCHANGED <<pipeVars, agentScript, replayVars, listVars, agentCalls,
                   invocations, buildVars, layer, rootVars>>

RemoveFile(f) ==
    /\ Editable
    /\ f \in DOMAIN sources
    /\ sources' = [g \in DOMAIN sources \ {f} |-> sources[g]]
    /\ UNCHANGED <<pipeVars, agentScript, replayVars, listVars, agentCalls,
                   invocations, buildVars, layer, rootVars>>

RenameFile(f, to) ==
    /\ Editable
    /\ f \in DOMAIN sources
    /\ to \notin DOMAIN sources
    /\ sources' = [g \in (DOMAIN sources \ {f}) \cup {to} |->
                      IF g = to THEN sources[f] ELSE sources[g]]
    /\ UNCHANGED <<pipeVars, agentScript, replayVars, listVars, agentCalls,
                   invocations, buildVars, layer, rootVars>>

\* The last character of one file is moved to the start of another.
MoveText(f, to) ==
    /\ Editable
    /\ f \in DOMAIN sources
    /\ to \in DOMAIN sources
    /\ f # to
    /\ Len(sources[f]) > 0
    /\ Len(sources[to]) < MaxContentLen
    /\ sources' = [sources EXCEPT
                      ![f] = SubSeq(@, 1, Len(@) - 1),
                      ![to] = <<sources[f][Len(sources[f])]>> \o @]
    /\ UNCHANGED <<pipeVars, agentScript, replayVars, listVars, agentCalls,
                   invocations, buildVars, layer, rootVars>>

HashNext ==
    \/ Synth
    \/ \E f \in FilePaths, content \in Contents : EditFile(f, content)
    \/ \E f \in FilePaths, content \in Contents : AddFile(f, content)
    \/ \E f \in FilePaths : RemoveFile(f)
    \/ \E f \in FilePaths, to \in FilePaths : RenameFile(f, to)
    \/ \E f \in FilePaths, to \in FilePaths : MoveText(f, to)

\* The two packages with any tree of files; no layer has been built.
HashInit ==
    /\ PipelineInit
    /\ agentScript = AnyScript
    /\ ReplayInit
    /\ ListingInit
    /\ MeterInit
    /\ BuildIdle
    /\ sources \in FileTrees
    /\ layer = NoLayer
    /\ RootIdle

HashSpec == HashInit /\ [][HashNext]_vars

\* The Python sources of a tree: the .py files, each with its path and
\* its content.
PythonSources(tree) == [f \in collectFiles(tree) |-> tree[f]]

\* C29 - Layer cache invalidation: the hash of the sources equals the hash
\* the layer was built under exactly when the Python sources are the ones
\* the layer was built from - equal .py files give equal hashes, and an
\* edited, added, removed or renamed .py file or text moved between two
\* .py files gives a different hash.
C29_LayerCacheInvalidation ==
    layer.built =>
        (computeSourceHash(sources) = layer.hash
            <=> PythonSources(sources) = PythonSources(layer.tree))

(***************************************************************************)
(* findProjectRoot(current) of bin/app.ts.  The directories on the path    *)
(* from the start directory up to the filesystem root are numbered by      *)
(* their depth, the root being 0.                                          *)
(***************************************************************************)
Dirs == 0..MaxPathDepth

\* What a directory contains of .git, pyproject.toml and packages.
Marks == [git : BOOLEAN, pyproject : BOOLEAN, packages : BOOLEAN]

\* path.dirname: the parent directory; the root is its own parent.
dirname(d) == IF d = 0 THEN 0 ELSE d - 1

\* The test of the loop body: .git exists, or pyproject.toml and packages
\* both exist.
IsProjectRoot(d) ==
    \/ markers[d].git
    \/ markers[d].pyproject /\ markers[d].packages

\* One turn of the while loop, or the throw after it.
FindStep ==
    /\ found.pc = "searching"
    /\ IF current # dirname(current)
       THEN IF IsProjectRoot(current)
            THEN /\ found' = [found EXCEPT !.pc = "returned", !.dir = current]
                 /\ UNCHANGED current
            ELSE /\ current' = dirname(current)
                 /\ UNCHANGED found
       ELSE /\ found' = [found EXCEPT !.pc = "thrown"]
            /\ UNCHANGED current
    /\ UNCHANGED <<pipeVars, agentScript, replayVars, listVars, agentCalls,
                   invocations, buildVars, hashVars, markers>>

\* findProjectRoot is called with any start directory in any filesystem.
RootInit ==
    /\ PipelineInit
    /\ agentScript = AnyScript
    /\ ReplayInit
    /\ ListingInit
    /\ MeterInit
    /\ BuildIdle
    /\ HashIdle
    /\ markers \in [Dirs -> Marks]
    /\ current \in Dirs
    /\ found = [pc |-> "searching", start |-> current, dir |-> 0]

\* The call runs on: it is a loop without a wait.
RootSpec == RootInit /\ [][FindStep]_vars /\ WF_vars(FindStep)

\* The directories from the start up to the root, both included, that
\* contain .git or both pyproject.toml and packages.
Qualifying ==
    {d \in 0..found.start :
         markers[d].git \/ (markers[d].pyproject /\ markers[d].packages)}

\* C30 - findProjectRoot: the call ends for every start path; when it
\* returns, it returns the nearest qualifying directory on the path from
\* the start up to the root, both included; it throws only if no directory
\* on that path qualifies.
C30_FindProjectRoot ==
    /\ <>(found.pc \in {"returned", "thrown"})
    /\ [](found.pc = "returned" =>
              /\ found.dir \in Qualifying
              /\ \A d \in Qualifying : d <= found.dir)
    /\ [](found.pc = "thrown" => Qualifying = {})

====
